---- MODULE Spec2Model ----
(***************************************************************************)
(* Model of dji_thermal_converter.py: main() and jpg_to_thermal_tif().     *)
(* File names are sequences of one-character strings, so that endswith()   *)
(* and split('.')[0] are computed as Python computes them.  A directory is *)
(* a function from the names it holds to the content of each file.         *)
(***************************************************************************)
EXTENDS Integers, Sequences, FiniteSets, TLC

\* Largest number of '_T.JPG' files in input_images at the start of a run.
MaxInputs == 2

----------------------------------------------------------------------------
\* String helpers

T_JPG == <<"_", "T", ".", "J", "P", "G">>
TIF == <<".", "t", "i", "f">>
ORIGINAL == <<"o", "r", "i", "g", "i", "n", "a", "l">>

\* str.endswith(suffix)
EndsWith(s, suffix) ==
    /\ Len(s) >= Len(suffix)
    /\ SubSeq(s, Len(s) - Len(suffix) + 1, Len(s)) = suffix

\* str.split('.')[0]: the characters before the first '.', all of s if none
SplitDot0(s) ==
    IF \E i \in 1..Len(s) : s[i] = "."
    THEN LET first == CHOOSE i \in 1..Len(s) :
                          /\ s[i] = "."
                          /\ \A j \in 1..(i - 1) : s[j] # "."
         IN SubSeq(s, 1, first - 1)
    ELSE s

\* out_file = filename.split('.')[0]+'.tif'
OutFile(filename) == SplitDot0(filename) \o TIF

\* the name exiftool gives the copy it keeps of the file it rewrites
BackupOf(name) == name \o <<"_">> \o ORIGINAL

\* the three filters of main(); IsTifOrInput and IsNoMetaDot are variants of
\* the second and third with a wrong suffix test
IsInput(name) == EndsWith(name, T_JPG)
IsTifOrInput(name) == EndsWith(name, TIF) \/ EndsWith(name, T_JPG)
IsTif(name) == EndsWith(name, TIF)
IsNoMetaDot(name) == EndsWith(name, <<".">> \o ORIGINAL)
IsNoMeta(name) == EndsWith(name, ORIGINAL)

----------------------------------------------------------------------------
\* The files a run may find

A_T_JPG == <<"a">> \o T_JPG
AB_T_JPG == <<"a", ".", "b">> \o T_JPG
AC_T_JPG == <<"a", ".", "c">> \o T_JPG
InputNames == {A_T_JPG, AB_T_JPG, AC_T_JPG}

\* a lower-case capture name: not selected, always present
LowerName == <<"c", "_", "T", ".", "j", "p", "g">>
\* leftovers of an earlier run
StaleTif == <<"a", "_", "T">> \o TIF
StaleBackup == <<"b", ".">> \o ORIGINAL
StaleNames == {StaleTif, StaleBackup}

NoFile == <<>>

\* file contents: what the file is, and the input it was made from
File(kind, from) == [kind |-> kind, from |-> from]

InitialContent(name) ==
    IF IsInput(name) THEN File("rjpeg", name)
    ELSE IF name = StaleTif THEN File("tagged", NoFile)
    ELSE IF name = StaleBackup THEN File("backup", NoFile)
    ELSE File("other", NoFile)

Perms(S) ==
    {s \in [1..Cardinality(S) -> S] :
        \A i, j \in 1..Cardinality(S) : i # j => s[i] # s[j]}

Range(s) == {s[i] : i \in 1..Len(s)}

Remove(dir, name) == [f \in DOMAIN dir \ {name} |-> dir[f]]
Put(dir, name, content) ==
    [f \in DOMAIN dir \cup {name} |-> IF f = name THEN content ELSE dir[f]]

----------------------------------------------------------------------------
VARIABLES
    inDir,              \* input_images: name -> content
    outDir,             \* output_images: name -> content
    outExists,          \* output_images exists
    pc,                 \* position in main() / jpg_to_thermal_tif()
    input_files,        \* line 37
    n,                  \* number of loop iterations started (n + 1 of line 49)
    file,               \* loop variable of line 47
    tif_files,          \* line 58
    no_meta_tif_files,  \* line 60
    todo,               \* elements of the list being walked not yet visited
    warned,             \* logging.warning of line 41 was emitted
    errlog,             \* logging.error of line 54: <<file, failing step>>
    events,             \* every step started, in order: <<step, file>>
    inDir0,             \* input_images as the run found it
    outDir0,            \* output_images as the run found it
    outExists0,         \* whether output_images existed when the run began
    inDirAtScan         \* input_images when the conversion loop ended

vars == <<inDir, outDir, outExists, pc, input_files, n, file, tif_files,
          no_meta_tif_files, todo, warned, errlog, events, inDir0, outDir0,
          outExists0, inDirAtScan>>

\* the variables that only record what happened
hist == <<inDir0, outDir0, outExists0>>

Init ==
    /\ \E ins \in SUBSET InputNames, stale \in SUBSET StaleNames :
          /\ Cardinality(ins) <= MaxInputs
          /\ inDir = [f \in ins \cup stale \cup {LowerName} |-> InitialContent(f)]
    /\ \E present \in BOOLEAN, old \in SUBSET {StaleTif} :
          /\ ~present => old = {}
          /\ outExists = present
          /\ outDir = [f \in old |-> File("tagged", NoFile)]
    /\ pc = "start"
    /\ input_files = <<>>
    /\ n = 0
    /\ file = NoFile
    /\ tif_files = {}
    /\ no_meta_tif_files = {}
    /\ todo = {}
    /\ warned = FALSE
    /\ errlog = <<>>
    /\ events = <<>>
    /\ inDir0 = inDir
    /\ outDir0 = outDir
    /\ outExists0 = outExists
    /\ inDirAtScan = inDir

----------------------------------------------------------------------------
\* main()

\* main() with the os.makedirs call left out
MakeDirsSkip ==
    /\ pc = "start"
    /\ pc' = "list"
    /\ UNCHANGED <<inDir, outDir, outExists, input_files, n, file, tif_files,
                   no_meta_tif_files, todo, warned, errlog, events, hist, inDirAtScan>>

\* os.makedirs(output_folder, exist_ok=True)
MakeDirs ==
    /\ pc = "start"
    /\ outExists' = TRUE
    /\ pc' = "list"
    /\ UNCHANGED <<inDir, outDir, input_files, n, file, tif_files,
                   no_meta_tif_files, todo, warned, errlog, events, hist, inDirAtScan>>

\* input_files = [...]; the early return when there is none
ListInputs ==
    /\ pc = "list"
    /\ \E listing \in Perms({f \in DOMAIN inDir : IsInput(f)}) :
          /\ input_files' = listing
          /\ IF Len(listing) = 0
             THEN /\ warned' = TRUE
                  /\ pc' = "done"
             ELSE /\ warned' = warned
                  /\ pc' = "loop"
    /\ UNCHANGED <<inDir, outDir, outExists, n, file, tif_files,
                   no_meta_tif_files, todo, errlog, events, hist, inDirAtScan>>

\* the loop stopping one file short
LoopNextOffByOne ==
    /\ pc = "loop"
    /\ IF n + 1 < Len(input_files)
       THEN /\ file' = input_files[n + 1]
            /\ n' = n + 1
            /\ pc' = "init"
       ELSE /\ pc' = "scan"
            /\ UNCHANGED <<file, n>>
    /\ UNCHANGED <<inDir, outDir, outExists, input_files, tif_files,
                   no_meta_tif_files, todo, warned, errlog, events, hist,
                   inDirAtScan>>

\* for n, file in enumerate(input_files): progress_bar(n + 1, total); try:
LoopNext ==
    /\ pc = "loop"
    /\ IF n < Len(input_files)
       THEN /\ file' = input_files[n + 1]
            /\ n' = n + 1
            /\ pc' = "init"
       ELSE /\ pc' = "scan"
            /\ UNCHANGED <<file, n>>
    /\ UNCHANGED <<inDir, outDir, outExists, input_files, tif_files,
                   no_meta_tif_files, todo, warned, errlog, events, hist, inDirAtScan>>

\* a handler that logs the error and gives up the remaining files
ExceptAbort(step) ==
    /\ errlog' = Append(errlog, <<file, step>>)
    /\ pc' = "scan"

\* except Exception as e: logging.error(f"Error converting {file}: {e}")
Except(step) ==
    /\ errlog' = Append(errlog, <<file, step>>)
    /\ pc' = "loop"

Started(step) == events' = Append(events, <<step, file>>)

----------------------------------------------------------------------------
\* jpg_to_thermal_tif(file, input_folder), called inside the try of line 51

\* dji_init(path): raises when the native library cannot be loaded
DjiInit ==
    /\ pc = "init"
    /\ Started("init")
    /\ \/ /\ pc' = "decode"
          /\ UNCHANGED errlog
       \/ Except("init")
    /\ UNCHANGED <<inDir, outDir, outExists, input_files, n, file, tif_files,
                   no_meta_tif_files, todo, warned, hist, inDirAtScan>>

\* img = rjpeg_to_heatmap(filepath, 0): raises on a file it cannot decode
Decode ==
    /\ pc = "decode"
    /\ Started("decode")
    /\ \/ /\ pc' = "create"
          /\ UNCHANGED errlog
       \/ Except("decode")
    /\ UNCHANGED <<inDir, outDir, outExists, input_files, n, file, tif_files,
                   no_meta_tif_files, todo, warned, hist, inDirAtScan>>

\* out_ds = driver.Create(out_filepath, ...); out_band = out_ds.GetRasterBand(1)
\* Create replaces whatever is at out_filepath; when it cannot create the file
\* nothing is written and the routine raises.
CreateRaster ==
    /\ pc = "create"
    /\ Started("create")
    /\ \/ /\ inDir' = Put(inDir, OutFile(file), File("empty", file))
          /\ pc' = "write"
          /\ UNCHANGED errlog
       \/ /\ Except("create")
          /\ UNCHANGED inDir
    /\ UNCHANGED <<outDir, outExists, input_files, n, file, tif_files,
                   no_meta_tif_files, todo, warned, hist, inDirAtScan>>

\* out_band.WriteArray(img); out_ds = None
\* A failed write raises and leaves the file Create made.
WriteArray ==
    /\ pc = "write"
    /\ Started("write")
    /\ \/ /\ inDir' = Put(inDir, OutFile(file), File("raster", file))
          /\ pc' = "tag"
          /\ UNCHANGED errlog
       \/ /\ Except("write")
          /\ UNCHANGED inDir
    /\ UNCHANGED <<outDir, outExists, input_files, n, file, tif_files,
                   no_meta_tif_files, todo, warned, hist, inDirAtScan>>

\* subprocess.run(['exiftool', '-tagsfromfile', filepath, out_filepath], ...)
\* exiftool rewrites out_filepath with the tags and keeps the file it replaced
\* as <out_filepath>_original (an existing one is kept).  A non-zero exit is
\* not checked; an executable that cannot be started raises in subprocess.run.
TagCopy ==
    /\ pc = "tag"
    /\ Started("tag")
    /\ LET out == OutFile(file)
           bak == BackupOf(out)
       IN \/ /\ inDir' = Put(IF bak \in DOMAIN inDir THEN inDir
                             ELSE Put(inDir, bak, File("backup", file)),
                             out, File("tagged", file))
             /\ pc' = "loop"
             /\ UNCHANGED errlog
          \/ /\ pc' = "loop"
             /\ UNCHANGED <<inDir, errlog>>
          \/ /\ Except("tag")
             /\ UNCHANGED inDir
    /\ UNCHANGED <<outDir, outExists, input_files, n, file, tif_files,
                   no_meta_tif_files, todo, warned, hist, inDirAtScan>>

----------------------------------------------------------------------------
\* the final pass of main()

\* tif_files = [...]; no_meta_tif_files = [...]
Scan ==
    /\ pc = "scan"
    /\ tif_files' = {f \in DOMAIN inDir : IsTif(f)}
    /\ no_meta_tif_files' = {f \in DOMAIN inDir : IsNoMeta(f)}
    /\ todo' = tif_files'
    /\ inDirAtScan' = inDir
    /\ events' = Append(events, <<"scan", NoFile>>)
    /\ pc' = "move"
    /\ UNCHANGED <<inDir, outDir, outExists, input_files, n, file, warned,
                   errlog, hist>>

\* a move that leaves the source file in place
RenameCopies(name) ==
    /\ outDir' = Put(outDir, name, inDir[name])
    /\ inDir' = inDir

\* os.rename(src_path, dest_path)
Rename(name) ==
    /\ outDir' = Put(outDir, name, inDir[name])
    /\ inDir' = Remove(inDir, name)

\* for file in tif_files: os.rename(...).  Files are visited in the order
\* os.listdir gave, which is arbitrary.  When dest_path exists os.rename
\* replaces it on POSIX and raises FileExistsError on Windows; nothing
\* catches that.
MoveTif ==
    /\ pc = "move"
    /\ IF todo = {}
       THEN /\ todo' = no_meta_tif_files
            /\ pc' = "delete"
            /\ UNCHANGED <<inDir, outDir, file, events>>
       ELSE \E f \in todo :
               /\ file' = f
               /\ events' = Append(events, <<"move", f>>)
               /\ \/ /\ Rename(f)
                     /\ todo' = todo \ {f}
                     /\ pc' = "move"
                  \/ /\ f \in DOMAIN outDir
                     /\ pc' = "crashed"
                     /\ UNCHANGED <<inDir, outDir, todo>>
    /\ UNCHANGED <<outExists, input_files, n, tif_files, no_meta_tif_files,
                   warned, errlog, hist, inDirAtScan>>

\* for file in no_meta_tif_files: os.remove(...); logging.info('Done!')
DeleteNoMeta ==
    /\ pc = "delete"
    /\ IF todo = {}
       THEN /\ pc' = "done"
            /\ UNCHANGED <<inDir, file, events, todo>>
       ELSE \E f \in todo :
               /\ file' = f
               /\ events' = Append(events, <<"delete", f>>)
               /\ inDir' = Remove(inDir, f)
               /\ todo' = todo \ {f}
               /\ pc' = "delete"
    /\ UNCHANGED <<outDir, outExists, input_files, n, tif_files,
                   no_meta_tif_files, warned, errlog, hist, inDirAtScan>>

Next ==
    \/ MakeDirs
    \/ ListInputs
    \/ LoopNext
    \/ DjiInit
    \/ Decode
    \/ CreateRaster
    \/ WriteArray
    \/ TagCopy
    \/ Scan
    \/ MoveTif
    \/ DeleteNoMeta

Spec == Init /\ [][Next]_vars

TypeOK ==
    /\ pc \in {"start", "list", "loop", "init", "decode", "create", "write",
               "tag", "scan", "move", "delete", "done", "crashed"}
    /\ n \in 0..Len(input_files)
    /\ outExists \in BOOLEAN
    /\ warned \in BOOLEAN

----------------------------------------------------------------------------
\* What the properties speak about

\* the files the run is to convert
Matching == {f \in DOMAIN inDir0 : EndsWith(f, T_JPG)}

\* calls of jpg_to_thermal_tif on f made so far (a call starts with dji_init)
Attempts(f) == Cardinality({i \in 1..Len(events) : events[i] = <<"init", f>>})

\* inputs whose conversion main() logged as an error, and at which step
Logged == {errlog[i][1] : i \in 1..Len(errlog)}
LoggedAt(steps) == {errlog[i][1] : i \in {j \in 1..Len(errlog) : errlog[j][2] \in steps}}

\* main() returned after the final pass
Finished == pc = "done" /\ ~warned
\* the conversion loop is over
PostLoop == pc \in {"scan", "move", "delete", "done", "crashed"} /\ ~warned

\* inputs whose call of jpg_to_thermal_tif returned normally
Succeeded == {f \in Matching : Attempts(f) = 1 /\ f \notin Logged}

\* names the final pass moved / deleted so far
Moved == {events[i][2] : i \in {j \in 1..Len(events) : events[j][1] = "move"}} \ todo
Deleted == {events[i][2] : i \in {j \in 1..Len(events) : events[j][1] = "delete"}}

\* the metadata tool's backup naming convention
BackupNamed(f) ==
    \/ EndsWith(f, <<".">> \o ORIGINAL)
    \/ EndsWith(f, <<"_">> \o ORIGINAL)

ConversionSteps == <<"init", "decode", "create", "write", "tag">>
IsConversionStep(e) == e[1] \in Range(ConversionSteps)
StepRank(e) == CHOOSE r \in 1..5 : ConversionSteps[r] = e[1]
Idx(f) == CHOOSE i \in 1..Len(input_files) : input_files[i] = f

----------------------------------------------------------------------------
\* C1: every matching file is attempted exactly once; a failed conversion is
\* logged under the file's name and the batch goes on: the loop always has a
\* next step, an uncaught error arises only in the final pass, and once the
\* loop is over every matching file has been attempted and the final pass
\* was entered.
C1_EveryFileAttemptedOnce ==
    /\ \A f \in Matching : Attempts(f) <= 1
    /\ \A i \in 1..Len(errlog) :
          errlog[i][1] \in Matching /\ Attempts(errlog[i][1]) = 1
    /\ PostLoop => \A f \in Matching : Attempts(f) = 1
    /\ pc \in {"done", "crashed"} /\ ~warned =>
          \E i \in 1..Len(events) : events[i] = <<"scan", NoFile>>
    /\ pc = "crashed" => \E i \in 1..Len(events) : events[i][1] = "move"
    /\ pc \notin {"done", "crashed"} => ENABLED Next

\* a run of two files whose first file failed and which finished
C1_Witness ==
    /\ Finished
    /\ Len(input_files) = 2
    /\ Len(errlog) = 1
    /\ errlog[1][1] = input_files[1]
    /\ Attempts(input_files[2]) = 1

\* C2: with no matching file main() warns and returns without an error,
\* output_images exists afterwards, and nothing was put into it.
C2_NoInputsWarnAndReturn ==
    (Matching = {} /\ pc \notin {"start", "list"}) =>
        /\ pc = "done"
        /\ warned
        /\ errlog = <<>>
        /\ outExists
        /\ outDir = outDir0
        /\ inDir = inDir0

\* no matching file, output_images absent at the start, main() returned
C2_Witness ==
    /\ Matching = {}
    /\ ~outExists0
    /\ pc = "done"
    /\ warned
    /\ outExists

\* C3 as stated: after any run of main() that returns, no file with the
\* backup naming convention remains in input_images.
C3_NoBackupAfterAnyReturn ==
    pc = "done" => \A f \in DOMAIN inDir : ~BackupNamed(f)

\* C3 amended: after any run of main() that found at least one matching file
\* and returns, no file with the backup naming convention remains in
\* input_images.
C3_NoBackupAfterFinalPass ==
    Finished => \A f \in DOMAIN inDir : ~BackupNamed(f)

\* a finished run that deleted a backup the metadata tool made in this run
C3_Witness ==
    /\ Finished
    /\ \E f \in Deleted : BackupNamed(f) /\ f \notin DOMAIN inDir0
    /\ errlog # <<>>

C5_FailedInputLeavesNoOutput ==
    Finished =>
        \A f \in LoggedAt({"init", "decode", "create", "write"}) :
            \A g \in Moved :
                /\ inDirAtScan[g].from # f
                /\ (g = OutFile(f) => inDirAtScan[g].from \in Succeeded)

\* C6 as stated: every file in output_images carries injected metadata.
C6_OutputAlwaysTagged ==
    \A f \in DOMAIN outDir : outDir[f].kind = "tagged"

\* C7 as stated: the rasters made from successfully converted inputs that
\* the run put into output_images are as many as those inputs, distinct
\* inputs giving distinct rasters.
C7_OneRasterPerSuccess ==
    Finished =>
        /\ \A f, g \in Succeeded : f # g => OutFile(f) # OutFile(g)
        /\ Cardinality({g \in Moved : inDirAtScan[g].from \in Succeeded})
              = Cardinality(Succeeded)

\* C8 as stated: main() logs a conversion error only for a failure of the
\* decoder or of the raster write, never for the metadata-copy step.
C8_TagCopyNeverSignalsFailure ==
    \A i \in 1..Len(errlog) : errlog[i][2] # "tag"

\* C9: the steps of a file happen in the order init, decode, create, write,
\* tag without a gap, a file's steps all come before the steps of the files
\* listed after it, and every move and delete comes after the first step of
\* every matching file.
C9_StrictOrder ==
    /\ \A i \in 1..Len(events) :
          IsConversionStep(events[i]) =>
              /\ events[i][2] \in Range(input_files)
              /\ StepRank(events[i]) = 1 =>
                    \A j \in 1..(i - 1) :
                        /\ IsConversionStep(events[j])
                        /\ Idx(events[j][2]) < Idx(events[i][2])
              /\ StepRank(events[i]) > 1 =>
                    /\ i > 1
                    /\ events[i - 1] =
                          <<ConversionSteps[StepRank(events[i]) - 1], events[i][2]>>
    /\ \A i \in 1..Len(events) :
          events[i][1] \in {"scan", "move", "delete"} =>
              \A f \in Matching :
                  \E j \in 1..(i - 1) : events[j] = <<"init", f>>
    /\ \A i, j \in 1..Len(events) :
          (events[i][1] = "move" /\ events[j][1] = "delete") => i < j

\* two files went through all five steps, then a raster was moved and a
\* backup deleted
C9_Witness ==
    /\ Finished
    /\ Len(input_files) = 2
    /\ \A f \in Matching : \E i \in 1..Len(events) : events[i] = <<"tag", f>>
    /\ Moved # {}
    /\ Deleted # {}

\* C10: every '_T.JPG' file the run found is still in input_images with the
\* content it had; only '.tif' names are moved, only selected backups are
\* deleted, and the moved names, the deleted names and the inputs are
\* pairwise disjoint.
C10_InputsUntouched ==
    /\ \A f \in Matching : f \in DOMAIN inDir /\ inDir[f] = inDir0[f]
    /\ \A f \in tif_files : EndsWith(f, TIF)
    /\ \A f \in no_meta_tif_files : EndsWith(f, ORIGINAL)
    /\ tif_files \cap no_meta_tif_files = {}
    /\ tif_files \cap Matching = {}
    /\ no_meta_tif_files \cap Matching = {}
    /\ \A i \in 1..Len(events) :
          /\ events[i][1] = "move" => events[i][2] \in tif_files
          /\ events[i][1] = "delete" => events[i][2] \in no_meta_tif_files

\* a finished run over two inputs that moved a raster and deleted a backup
C10_Witness ==
    /\ Finished
    /\ Cardinality(Matching) = 2
    /\ Moved # {}
    /\ Deleted # {}
    /\ \A f \in Matching : f \in DOMAIN inDir

====
